---- MODULE Spec2Model ----
(***************************************************************************)
(* The wake-word detection loop of the two scripts                         *)
(*   src/python/openwakeword_server.py      (variant "server")             *)
(*   src/scripts/openwakeword-detector.py   (variant "detector")           *)
(* A byte stream is read from stdin in reads of at most read_size bytes,   *)
(* appended to a buffer, sliced into frames of frame_size bytes, each      *)
(* frame is scored by the external model and the scores are compared with  *)
(* the threshold.  Scores are in thousandths (650 is 0.65).                *)
(***************************************************************************)
EXTENDS Integers, Sequences, FiniteSets, TLC

VARIABLES
    variant,            \* which script is running
    debug,              \* args.debug (detector only)
    threshold,          \* the threshold argument
    threshold_ok,       \* the threshold argument is a number
    model_known,        \* the model name is one the model can be loaded for
    detectors,          \* number of detectors the loaded model scores
    total,              \* length in bytes of the input stream
    pos,                \* bytes of the stream read so far
    closed,             \* stdin has failed permanently: every read raises
    readErrors,         \* failed reads so far
    shortReads,         \* reads of fewer than ShortRead bytes so far
    audio_buffer,       \* audio_buffer (server) / buffer (detector)
    frames_processed,   \* frames_processed (server only)
    max_score,          \* max_score (server only)
    frame,              \* the frame most recently sliced off the buffer
    sliced,             \* number of frames sliced off the buffer so far
    calls,              \* calls made to the model: predict / reset, in order
    predicted,          \* what predict returned for each frame, in order
    out,                \* records printed to stdout, in order
    pc,                 \* position of the process
    exit_code           \* exit status once the process has ended

vars == << variant, debug, threshold, threshold_ok, model_known,
           detectors, total, pos, closed, readErrors,
           shortReads, audio_buffer, frames_processed, max_score, frame,
           sliced, calls, predicted, out, pc, exit_code >>

----------------------------------------------------------------------------
(* Program constants *)

CHUNK_SIZE == 1280

frame_size == CHUNK_SIZE * 2

SERVER_READ == 4096

read_size(v) == IF v = "server" THEN SERVER_READ ELSE frame_size

DEBUG_INTERVAL == 50

DEBUG_SCORE == 100

(* Bounds of the model *)

MaxFrames == 2

Leftover == 10

MaxShortReads == 1

MaxReadErrors == 1

Variants == {"server", "detector"}

Thresholds == {500, 650}

Scores == {0, 650, 900}

(* How many detectors the loaded model scores on each frame. *)
DetectorCounts == {1, 2}

AVAILABLE_MODELS ==
    << "alexa", "hey_jarvis", "hey_mycroft", "hey_rhasspy", "current_weather",
       "timers" >>

NameReversed(i) == AVAILABLE_MODELS[Len(AVAILABLE_MODELS) - i + 1]

(* The name of the i-th detector the model registered. *)
Name(i) == AVAILABLE_MODELS[i]

(* Stream lengths: empty, shorter than a frame, whole frames, and whole   *)
(* frames followed by a partial one.                                      *)
Totals == { q * frame_size + r : q \in {0, MaxFrames}, r \in {0, Leftover} }

----------------------------------------------------------------------------
(* The input stream: byte i is labelled by its offset i, so that a frame   *)
(* that is reordered, duplicated or shifted differs from the right one.    *)

StreamBytes(from, n) == [ i \in 1..n |-> from + i ]

Min(a, b) == IF a < b THEN a ELSE b

(* Sizes a read may return when `avail` bytes of the stream remain. *)
ReadReturns(v, avail, short) ==
    { n \in { 1, Leftover, SERVER_READ - frame_size, frame_size, SERVER_READ,
              Min(avail, read_size(v)) } :
        /\ n >= 1
        /\ n <= Min(avail, read_size(v))
        /\ (n < SERVER_READ - frame_size => short < MaxShortReads) }

(* A ScoreMap: the scores of the d detectors in registration order. *)
ScoreMaps(d) == [ 1..d -> Scores ]

----------------------------------------------------------------------------
(* Records on stdout *)

Rec(t, k, n, s) == [ type |-> t, frame |-> k, name |-> n, score |-> s ]

ReadyEvent == Rec("ready", 0, "", 0)

StoppedEvent == Rec("stopped", 0, "", 0)

FatalError == Rec("fatal", 0, "", 0)

LoadingDebug == Rec("loading", 0, "", 0)

ErrorEvent(k) == Rec("error", k, "", 0)

DetectionEvent(k, n, s) == Rec("detection", k, n, s)

ScoreDebug(k, n, s) == Rec("scoredebug", k, n, s)

DebugEvent(n, m) == Rec("debug", n, "", m)

MeetsAlwaysGe(v, score, thr) == score >= thr

(* The threshold comparison of each script. *)
Meets(v, score, thr) ==
    IF v = "server" THEN score > thr ELSE score >= thr

(* A call of the model: its operation, the frame being processed and the   *)
(* number of records printed before the call.                              *)
Call(o, k, printed) == [ op |-> o, frame |-> k, after |-> printed ]

PredictCall(k, printed) == << Call("predict", k, printed) >>

NoResetCalls(k, printed) == << >>

(* The model is reset after a detection. *)
ResetCalls(k, printed) == << Call("reset", k, printed) >>

TrackLast(v, m, score) == IF v = "server" THEN score ELSE m

(* max_score follows the largest score seen (server only). *)
TrackMax(v, m, score) == IF v = "server" /\ score > m THEN score ELSE m

StopAfterHit(i, hit, n) == IF hit THEN n + 1 ELSE i + 1

(* The for loop goes on to the next detector, whether or not this one     *)
(* fired.                                                                  *)
NextDetector(i, hit, n) == i + 1

(* The loop over prediction.items(): st = [out, calls, max]. *)
RECURSIVE Evaluate(_, _, _, _, _, _, _)
Evaluate(v, dbg, thr, k, pred, i, st) ==
    IF i > Len(pred) THEN st
    ELSE
        LET score == pred[i]
            name  == Name(i)
            m1    == TrackMax(v, st.max, score)
            o1    == IF v = "detector" /\ dbg /\ score > DEBUG_SCORE
                     THEN Append(st.out, ScoreDebug(k, name, score))
                     ELSE st.out
            hit   == Meets(v, score, thr)
            o2    == Append(o1, DetectionEvent(k, name, score))
            st2   == IF hit
                     THEN [ out   |-> o2,
                            calls |-> st.calls \o ResetCalls(k, Len(o2)),
                            max   |-> IF v = "server" THEN 0 ELSE m1 ]
                     ELSE [ out |-> o1, calls |-> st.calls, max |-> m1 ]
        IN Evaluate(v, dbg, thr, k, pred, NextDetector(i, hit, Len(pred)), st2)

AfterFrameOnce(buf) == "read"

(* Where the loop goes after the frames of the buffer: the inner while     *)
(* continues while a complete frame is buffered.                           *)
AfterFrame(buf) == IF Len(buf) >= frame_size THEN "frame" ELSE "read"

(* Where the loop goes when an exception reaches the except clause:        *)
(* `continue` restarts the outer loop at the read.                         *)
AfterException(buf) == "read"

(* What the except clause prints. *)
Reported(v, dbg) == v = "server" \/ dbg

----------------------------------------------------------------------------
Init ==
    /\ variant \in Variants
    /\ debug \in (IF variant = "server" THEN {FALSE} ELSE BOOLEAN)
    /\ threshold \in Thresholds
    /\ threshold_ok \in BOOLEAN
    /\ model_known \in BOOLEAN
    /\ detectors \in DetectorCounts
    /\ total \in Totals
    /\ pos = 0
    /\ closed = FALSE
    /\ readErrors = 0
    /\ shortReads = 0
    /\ audio_buffer = << >>
    /\ frames_processed = 0
    /\ max_score = 0
    /\ frame = << >>
    /\ sliced = 0
    /\ calls = << >>
    /\ predicted = << >>
    /\ out = << >>
    /\ pc = "init"
    /\ exit_code = -1

Config ==
    << variant, debug, threshold, threshold_ok, model_known, detectors, total >>

(* What is printed before Model(...) is called: the detector announces   *)
(* the model it loads when --debug is given.                              *)
Loading(v, dbg, printed) ==
    IF v = "detector" /\ dbg THEN Append(printed, LoadingDebug) ELSE printed

(* The threshold argument is not a number: float() raises in the server   *)
(* (uncaught, status 1), argparse rejects it in the detector (status 2).  *)
(* Nothing is printed on stdout.                                          *)
ThresholdInvalid ==
    /\ pc = "init"
    /\ ~threshold_ok
    /\ pc' = "failed"
    /\ exit_code' = IF variant = "server" THEN 1 ELSE 2
    /\ UNCHANGED << Config, pos, closed, readErrors, shortReads, audio_buffer,
                    frames_processed, max_score, frame, sliced, calls,
                    predicted, out >>

(* The server checks the model name against AVAILABLE_MODELS. *)
UnknownModel ==
    /\ pc = "init"
    /\ threshold_ok
    /\ variant = "server"
    /\ ~model_known
    /\ out' = Append(out, FatalError)
    /\ pc' = "failed"
    /\ exit_code' = 1
    /\ UNCHANGED << Config, pos, closed, readErrors, shortReads, audio_buffer,
                    frames_processed, max_score, frame, sliced, calls,
                    predicted >>

(* Model(...) is constructed and the ready record printed. *)
Initialize ==
    /\ pc = "init"
    /\ threshold_ok
    /\ model_known
    /\ out' = Append(Loading(variant, debug, out), ReadyEvent)
    /\ pc' = "read"
    /\ UNCHANGED << Config, pos, closed, readErrors, shortReads, audio_buffer,
                    frames_processed, max_score, frame, sliced, calls,
                    predicted, exit_code >>

InitFailureSilent(printed) == printed

(* The except clause around Model(...) prints the error record. *)
InitFailureRecord(printed) == Append(printed, FatalError)

(* Model(...) raises: the error record is printed and the process exits 1. *)
InitializeFails ==
    /\ pc = "init"
    /\ threshold_ok
    /\ variant = "detector" \/ model_known
    /\ out' = InitFailureRecord(Loading(variant, debug, out))
    /\ pc' = "failed"
    /\ exit_code' = 1
    /\ UNCHANGED << Config, pos, closed, readErrors, shortReads, audio_buffer,
                    frames_processed, max_score, frame, sliced, calls,
                    predicted >>

(* The process leaves the loop on end-of-stream. *)
Finish ==
    /\ pc' = "stopped"
    /\ exit_code' = 0
    /\ out' = IF variant = "detector" THEN Append(out, StoppedEvent) ELSE out

(* stdin.buffer.read(...) returns n >= 1 bytes, or b'' at end-of-stream. *)
Read ==
    /\ pc = "read"
    /\ ~closed
    /\ IF pos = total
       THEN /\ Finish
            /\ UNCHANGED << pos, shortReads, audio_buffer >>
       ELSE \E n \in ReadReturns(variant, total - pos, shortReads) :
            /\ pos' = pos + n
            /\ shortReads' = IF n < SERVER_READ - frame_size
                             THEN shortReads + 1 ELSE shortReads
            /\ audio_buffer' = audio_buffer \o StreamBytes(pos, n)
            /\ pc' = AfterFrame(audio_buffer')
            /\ UNCHANGED << out, exit_code >>
    /\ UNCHANGED << Config, closed, readErrors, frames_processed, max_score,
                    frame, sliced, calls, predicted >>

(* The read raises (stdin is closed or broken for good). *)
ReadFails ==
    /\ pc = "read"
    /\ readErrors < MaxReadErrors
    /\ closed' = TRUE
    /\ readErrors' = readErrors + 1
    /\ out' = IF Reported(variant, debug) THEN Append(out, ErrorEvent(0)) ELSE out
    /\ pc' = AfterException(audio_buffer)
    /\ UNCHANGED << Config, pos, shortReads, audio_buffer, frames_processed,
                    max_score, frame, sliced, calls, predicted, exit_code >>

Uncounted(v, n) == n

(* frames_processed += 1 right after the slice, before the frame is       *)
(* scored (server only; the detector keeps no counter).                   *)
Counted(v, n) == IF v = "server" THEN n + 1 ELSE n

(* The head of one iteration of the inner while: a frame is sliced off    *)
(* the buffer and counted.                                                 *)
Slice ==
    /\ frame' = SubSeq(audio_buffer, 1, frame_size)
    /\ audio_buffer' = SubSeq(audio_buffer, frame_size + 1, Len(audio_buffer))
    /\ sliced' = sliced + 1
    /\ frames_processed' = Counted(variant, frames_processed)

(* One iteration of the inner while: slice a frame, score it, evaluate. *)
ProcessFrame ==
    /\ pc = "frame"
    /\ Slice
    /\ \E pred \in ScoreMaps(detectors) :
        LET k  == sliced'
            st == Evaluate(variant, debug, threshold, k, pred, 1,
                           [ out |-> out,
                             calls |-> calls \o PredictCall(k, Len(out)),
                             max |-> max_score ])
            tick == variant = "server" /\ frames_processed' % DEBUG_INTERVAL = 0
        IN /\ calls' = st.calls
           /\ out' = IF tick
                     THEN Append(st.out, DebugEvent(frames_processed', st.max))
                     ELSE st.out
           /\ max_score' = IF tick THEN 0 ELSE st.max
           /\ predicted' = Append(predicted, [ ok |-> TRUE, scores |-> pred ])
    /\ pc' = AfterFrame(audio_buffer')
    /\ UNCHANGED << Config, pos, closed, readErrors, shortReads, exit_code >>

ProcessFrameFailsRetried ==
    /\ pc = "frame"
    /\ frame' = SubSeq(audio_buffer, 1, frame_size)
    /\ sliced' = sliced + 1
    /\ frames_processed' = Counted(variant, frames_processed)
    /\ calls' = calls \o PredictCall(sliced', Len(out))
    /\ predicted' = Append(predicted, [ ok |-> FALSE, scores |-> << >> ])
    /\ out' = IF Reported(variant, debug)
              THEN Append(out, ErrorEvent(sliced')) ELSE out
    /\ pc' = "read"
    /\ UNCHANGED << Config, pos, closed, readErrors, shortReads, max_score,
                    exit_code, audio_buffer >>

(* model.predict raises on the frame. *)
ProcessFrameFails ==
    /\ pc = "frame"
    /\ Slice
    /\ calls' = calls \o PredictCall(sliced', Len(out))
    /\ predicted' = Append(predicted, [ ok |-> FALSE, scores |-> << >> ])
    /\ out' = IF Reported(variant, debug)
              THEN Append(out, ErrorEvent(sliced')) ELSE out
    /\ pc' = AfterException(audio_buffer')
    /\ UNCHANGED << Config, pos, closed, readErrors, shortReads, max_score,
                    exit_code >>

(* SIGINT while the loop runs: KeyboardInterrupt in the try block.  The    *)
(* detector catches it and breaks; the server catches only Exception, so  *)
(* the interpreter ends on the uncaught KeyboardInterrupt (status 130).   *)
Interrupt ==
    /\ pc \in {"read", "frame"}
    /\ IF variant = "detector"
       THEN /\ out' = Append(out, StoppedEvent)
            /\ pc' = "interrupted"
            /\ exit_code' = 0
       ELSE /\ out' = out
            /\ pc' = "killed"
            /\ exit_code' = 130
    /\ UNCHANGED << Config, pos, closed, readErrors, shortReads, audio_buffer,
                    frames_processed, max_score, frame, sliced, calls,
                    predicted >>

Next ==
    \/ ThresholdInvalid
    \/ UnknownModel
    \/ Initialize
    \/ InitializeFails
    \/ Read
    \/ ReadFails
    \/ ProcessFrame
    \/ ProcessFrameFails
    \/ Interrupt

Spec == Init /\ [][Next]_vars

----------------------------------------------------------------------------
(* The server loop shortly before its first debug record.  Warmup frames   *)
(* have been read in reads of frame_size bytes and have all scored 0, so   *)
(* nothing was printed after the ready record; the stream goes on for the  *)
(* lengths of Totals.                                                      *)

Warmup == DEBUG_INTERVAL - MaxFrames + 1

QuietScores(d) == [ i \in 1..d |-> 0 ]

HeartbeatInit ==
    /\ variant = "server"
    /\ debug = FALSE
    /\ threshold \in Thresholds
    /\ threshold_ok = TRUE
    /\ model_known = TRUE
    /\ detectors \in DetectorCounts
    /\ total \in { Warmup * frame_size + t : t \in Totals }
    /\ pos = Warmup * frame_size
    /\ closed = FALSE
    /\ readErrors = 0
    /\ shortReads = 0
    /\ audio_buffer = << >>
    /\ frames_processed = Warmup
    /\ max_score = 0
    /\ frame = StreamBytes((Warmup - 1) * frame_size, frame_size)
    /\ sliced = Warmup
    /\ out = << ReadyEvent >>
    /\ calls = [ k \in 1..Warmup |-> Call("predict", k, Len(out)) ]
    /\ predicted = [ k \in 1..Warmup |->
                        [ ok |-> TRUE, scores |-> QuietScores(detectors) ] ]
    /\ pc = "read"
    /\ exit_code = -1

Loop ==
    \/ Read
    \/ ReadFails
    \/ ProcessFrame
    \/ ProcessFrameFails
    \/ Interrupt

HeartbeatSpec == HeartbeatInit /\ [][Loop]_vars

(* Sessions from their start, and server sessions around frame 50. *)
SessionSpec == (Init \/ HeartbeatInit) /\ [][Next]_vars

TypeOK ==
    /\ pc \in {"init", "read", "frame", "stopped", "interrupted", "killed",
              "failed"}
    /\ Len(predicted) = sliced
----------------------------------------------------------------------------
(* Properties *)

Last(seq) == seq[Len(seq)]

WholeFrames == total \div frame_size

DetectionsOf(k) ==
    { j \in 1..Len(out) : out[j].type = "detection" /\ out[j].frame = k }

ResetsOf(k) ==
    { c \in 1..Len(calls) : calls[c].op = "reset" /\ calls[c].frame = k }

FailedFrames == { k \in 1..Len(predicted) : ~predicted[k].ok }

(* C1: when end-of-stream is reached, floor(total / frame_size) frames     *)
(* have been sliced off the buffer and handed to scoring, and the buffer   *)
(* holds exactly total mod frame_size bytes.                               *)
C1_FrameAccounting ==
    pc = "stopped" =>
        /\ sliced = WholeFrames
        /\ Len(predicted) = WholeFrames
        /\ Len(audio_buffer) = total % frame_size

(* C2: however the stream is split into reads, the frames are the ones a   *)
(* single read of the whole stream yields: frame k is bytes                *)
(* (k-1)*frame_size+1 .. k*frame_size of the stream, in order, and at      *)
(* end-of-stream none of them is missing.                                  *)
C2_ChunkingIndependence ==
    /\ sliced <= WholeFrames
    /\ sliced > 0 => frame = StreamBytes((sliced - 1) * frame_size, frame_size)
    /\ pc = "stopped" => sliced = WholeFrames

(* C3: for every scored frame and every detector of its ScoreMap, exactly  *)
(* one DetectionEvent with that name and score is printed if the score is  *)
(* >= threshold (detector) or > threshold (server), and none otherwise;    *)
(* no other DetectionEvent is printed.                                     *)
C3_DetectionRule ==
    /\ \A k \in 1..Len(predicted) :
        predicted[k].ok =>
            \A i \in 1..Len(predicted[k].scores) :
                LET s     == predicted[k].scores[i]
                    fired == { j \in DetectionsOf(k) : out[j].name = Name(i) }
                IN IF \/ variant = "detector" /\ s >= threshold
                      \/ variant = "server" /\ s > threshold
                   THEN /\ Cardinality(fired) = 1
                        /\ \A j \in fired : out[j].score = s
                   ELSE fired = {}
    /\ \A j \in 1..Len(out) :
        out[j].type = "detection" =>
            /\ out[j].frame \in 1..Len(predicted)
            /\ predicted[out[j].frame].ok
            /\ \E i \in 1..Len(predicted[out[j].frame].scores) :
                   out[j].name = Name(i)

(* A score equal to the threshold has fired in the detector script. *)
C3_Witness ==
    /\ variant = "detector"
    /\ \E k \in 1..Len(predicted) :
        /\ predicted[k].ok
        /\ \E i \in 1..Len(predicted[k].scores) :
               predicted[k].scores[i] = threshold
        /\ DetectionsOf(k) # {}

(* C4: every DetectionEvent is followed by exactly one reset of the model, *)
(* called right after the record is printed and before the next frame is   *)
(* scored; the model is reset at no other point, so a frame with one       *)
(* detection has one reset and a frame with none has none.                 *)
C4_ResetAfterTrigger ==
    /\ \A j \in 1..Len(out) :
        out[j].type = "detection" =>
            Cardinality({ c \in ResetsOf(out[j].frame) : calls[c].after = j }) = 1
    /\ \A c \in 1..Len(calls) :
        calls[c].op = "reset" =>
            /\ calls[c].after \in DetectionsOf(calls[c].frame)
            /\ \A p \in 1..Len(calls) :
                calls[p].op = "predict" =>
                    (p < c <=> calls[p].frame <= calls[c].frame)
    /\ \A k \in 1..Len(predicted) :
        Cardinality(ResetsOf(k)) = Cardinality(DetectionsOf(k))

(* Score 0.9 against threshold 0.65 fired once in the detector script and  *)
(* a later frame has been scored.                                          *)
C4_Witness ==
    /\ variant = "detector"
    /\ threshold = 650
    /\ \E k \in 1..Len(predicted) :
        /\ Cardinality(DetectionsOf(k)) = 1
        /\ \A j \in DetectionsOf(k) : out[j].score = 900
        /\ Cardinality(ResetsOf(k)) = 1
        /\ Len(predicted) > k

(* C5: a detector that printed a DetectionEvent on frame k prints none on  *)
(* frame k+1.                                                              *)
C5_Debounce ==
    \A i, j \in 1..Len(out) :
        ~ /\ out[i].type = "detection"
          /\ out[j].type = "detection"
          /\ out[i].name = out[j].name
          /\ out[j].frame = out[i].frame + 1

(* C6: after a frame failed to score, every later complete frame of the    *)
(* stream is still scored: at end-of-stream floor(total / frame_size)      *)
(* frames have been handed to scoring.                                     *)
C6_FailureKeepsLaterFrames ==
    (pc = "stopped" /\ FailedFrames # {}) =>
        /\ Len(predicted) = WholeFrames
        /\ Len(audio_buffer) < frame_size

(* C7: every frame that failed to score has exactly one ErrorEvent.        *)
C7_FailureReported ==
    \A k \in FailedFrames :
        Cardinality({ j \in 1..Len(out) : out[j] = ErrorEvent(k) }) = 1

(* C8: a session that left the loop at end-of-stream has exit code 0 and   *)
(* a StoppedEvent as its last record.                                      *)
C8_CleanStop ==
    pc = "stopped" =>
        /\ exit_code = 0
        /\ Last(out) = StoppedEvent

(* C9: a session ended by an interrupt has a StoppedEvent as its last      *)
(* record.                                                                 *)
C9_CleanInterrupt ==
    pc \in {"interrupted", "killed"} => Last(out) = StoppedEvent

(* C10: a read that fails on a permanently closed stream ends the loop,    *)
(* as end-of-stream does.                                                  *)
C10_ClosedStreamStops ==
    [][ (pc = "read" /\ closed') => pc' \notin {"read", "frame"} ]_vars
NoReady == \A j \in 1..Len(out) : out[j].type # "ready"

(* C11: a session whose model name is unknown or whose threshold is not a  *)
(* number ends before the loop with a terminal error record on stdout, a   *)
(* non-zero exit code and no ReadyEvent.                                   *)
C11_ConfigErrorsReported ==
    (pc # "init" /\ (~threshold_ok \/ ~model_known)) =>
        /\ pc = "failed"
        /\ exit_code > 0
        /\ Len(out) > 0
        /\ Last(out) = FatalError
        /\ NoReady
        /\ pos = 0
        /\ calls = << >>

(* C12: when Model(...) cannot be constructed, the error record is the     *)
(* last record, the exit code is non-zero, no ReadyEvent was printed, no   *)
(* byte was read and no frame was scored.                                  *)
C12_InitFailureFatal ==
    (pc = "failed" /\ threshold_ok /\ (variant = "detector" \/ model_known)) =>
        /\ exit_code > 0
        /\ Len(out) > 0
        /\ Last(out) = FatalError
        /\ NoReady
        /\ pos = 0
        /\ sliced = 0
        /\ calls = << >>

(* Model(...) failed for a valid configuration. *)
C12_Witness ==
    /\ pc = "failed"
    /\ threshold_ok
    /\ model_known
    /\ Len(out) > 0
    /\ Last(out) = FatalError
DebugEvents == { j \in 1..Len(out) : out[j].type = "debug" }

(* C13: in the server a DebugEvent is printed exactly when                 *)
(* frames_processed reaches a positive multiple of 50, so the number of    *)
(* DebugEvents is floor(frames_processed / 50), each carries its frame     *)
(* count, and max_score is 0 right after it.                               *)
C13_Heartbeat ==
    variant = "server" =>
        /\ Cardinality(DebugEvents) = frames_processed \div DEBUG_INTERVAL
        /\ \A j \in DebugEvents : out[j].frame % DEBUG_INTERVAL = 0
        /\ (frames_processed > 0 /\ frames_processed % DEBUG_INTERVAL = 0)
               => max_score = 0
(* Points of the run, in order: detector i of frame k, and the end of      *)
(* frame k, where its DebugEvent is printed.                               *)
Point(k, i) == k * (detectors + 2) + i

EndOfFrame(k) == Point(k, detectors + 1)

(* The place of a name in the registration order. *)
NameIndex(n) ==
    CHOOSE i \in 1..Len(AVAILABLE_MODELS) : AVAILABLE_MODELS[i] = n

(* The points at which a DetectionEvent or a DebugEvent was printed. *)
ClearingPoints ==
    { Point(out[j].frame, NameIndex(out[j].name)) :
          j \in { d \in 1..Len(out) : out[d].type = "detection" } }
    \cup { EndOfFrame(out[j].frame) : j \in DebugEvents }
    \cup { 0 }

LastClearing == CHOOSE p \in ClearingPoints : \A q \in ClearingPoints : q <= p

(* The scores observed after point p. *)
ObservedSince(p) ==
    UNION { { predicted[k].scores[i] :
                  i \in { d \in 1..detectors : Point(k, d) > p } } :
            k \in { f \in 1..Len(predicted) :
                        predicted[f].ok /\ EndOfFrame(f) > p } }

(* C14: in the server max_score is the largest score observed since the   *)
(* most recent DebugEvent or DetectionEvent, and 0 if there was none.      *)
C14_RollingMax ==
    variant = "server" =>
        LET observed == ObservedSince(LastClearing)
        IN /\ \A s \in observed : s <= max_score
           /\ max_score \in observed \cup {0}

(* After the DebugEvent of frame 50 a later frame scored exactly the      *)
(* threshold, which does not fire in the server and is the new maximum.   *)
C14_Witness ==
    /\ variant = "server"
    /\ DebugEvents # {}
    /\ max_score = threshold
    /\ Len(predicted) > DEBUG_INTERVAL
(* The point of the run a record of a frame belongs to. *)
EventPoint(e) ==
    CASE e.type = "debug" -> EndOfFrame(e.frame)
      [] e.type = "error" -> Point(e.frame, 0)
      [] OTHER            -> Point(e.frame, NameIndex(e.name))

FrameRecords == { j \in 1..Len(out) : out[j].frame > 0 }

(* C15: the records of the frames appear in frame order; within a frame    *)
(* the DetectionEvents appear in the registration order of the detectors,  *)
(* and the DebugEvent of a frame comes after all its DetectionEvents.      *)
C15_EventOrder ==
    \A i, j \in FrameRecords :
        i < j =>
            /\ out[i].frame <= out[j].frame
            /\ EventPoint(out[i]) <= EventPoint(out[j])
            /\ (out[i].type = "detection" /\ out[j].type = "detection")
                   => EventPoint(out[i]) < EventPoint(out[j])
            /\ (out[i].type = "debug" /\ out[j].type = "detection")
                   => out[i].frame < out[j].frame

(* Two detectors fired on frame 50 of the server, then its DebugEvent. *)
C15_Witness ==
    /\ variant = "server"
    /\ \E j \in 1..Len(out) :
        /\ j + 2 <= Len(out)
        /\ out[j].type = "detection" /\ out[j].name = Name(1)
        /\ out[j + 1].type = "detection" /\ out[j + 1].name = Name(2)
        /\ out[j + 2].type = "debug"
        /\ out[j].frame = out[j + 2].frame
(* C16: the session goes from initialising to the running loop or to a     *)
(* terminal error, leaves the loop only by stopping, and once it has       *)
(* ended nothing is read, scored or printed any more.                      *)
C16_Lifecycle ==
    [][ /\ pc = "init" => pc' \in {"read", "failed"}
        /\ pc \in {"read", "frame"} =>
               pc' \in {"read", "frame", "stopped", "interrupted"}
        /\ pc \in {"stopped", "interrupted", "failed"} => UNCHANGED vars
        /\ \A j \in 1..Len(out') :
               out'[j].type \in {"detection", "debug", "error", "stopped"} =>
                   \E r \in 1..(j - 1) : out'[r].type = "ready"
        /\ Cardinality({ j \in 1..Len(out') : out'[j].type = "ready" }) <= 1
      ]_vars

(* C17: in the server frames_processed equals the number of frames sliced  *)
(* off the buffer so far, the frames whose scoring failed included.        *)
C17_FrameCounter ==
    variant = "server" =>
        /\ frames_processed = sliced
        /\ frames_processed = Len(predicted)
        /\ frames_processed =
               Cardinality({ c \in 1..Len(calls) : calls[c].op = "predict" })

(* The server has counted a frame whose scoring failed. *)
C17_Witness ==
    /\ variant = "server"
    /\ frames_processed = 2
    /\ FailedFrames # {}

(* C18: whenever the loop is about to read, the buffer holds fewer than    *)
(* frame_size bytes, and it never holds more than                          *)
(* frame_size - 1 + read_size bytes.                                       *)
C18_BoundedBuffer ==
    /\ pc = "read" => Len(audio_buffer) < frame_size
    /\ Len(audio_buffer) <= frame_size - 1 + read_size(variant)

PredictsOf(k) ==
    { c \in 1..Len(calls) : calls[c].op = "predict" /\ calls[c].frame = k }

(* C19: the scores of a frame come from one predict call made before any   *)
(* reset of that frame; as many DetectionEvents are printed for the frame  *)
(* as detectors meet the threshold, and as many resets are called.         *)
C19_SeveralDetectors ==
    \A k \in 1..Len(predicted) :
        predicted[k].ok =>
            LET meeting == { i \in 1..Len(predicted[k].scores) :
                               \/ variant = "detector"
                                  /\ predicted[k].scores[i] >= threshold
                               \/ variant = "server"
                                  /\ predicted[k].scores[i] > threshold }
            IN /\ Cardinality(DetectionsOf(k)) = Cardinality(meeting)
               /\ Cardinality(ResetsOf(k)) = Cardinality(meeting)
               /\ Cardinality(PredictsOf(k)) = 1
               /\ \A p \in PredictsOf(k) : \A c \in ResetsOf(k) : p < c

(* Two detectors met the threshold on one frame: two events, two resets. *)
C19_Witness ==
    \E k \in 1..Len(predicted) :
        /\ predicted[k].ok
        /\ Len(predicted[k].scores) = 2
        /\ Cardinality(DetectionsOf(k)) = 2
        /\ Cardinality(ResetsOf(k)) = 2

(* C20: the step in which scoring fails prints no DetectionEvent, calls no *)
(* reset, leaves max_score unchanged and leaves in the buffer exactly the  *)
(* bytes read so far that follow the failed frame.                         *)
C20_FailedFrameEffect ==
    [][ (Len(predicted') = Len(predicted) + 1 /\ ~predicted'[Len(predicted')].ok)
        => /\ max_score' = max_score
           /\ \A j \in (Len(out) + 1)..Len(out') : out'[j].type = "error"
           /\ \A c \in (Len(calls) + 1)..Len(calls') : calls'[c].op = "predict"
           /\ sliced' = sliced + 1
           /\ audio_buffer' =
                  StreamBytes(sliced' * frame_size, pos - sliced' * frame_size)
      ]_vars

(* Scoring has just failed while bytes after the failed frame were         *)
(* buffered.                                                               *)
C20_Witness ==
    /\ pc = "read"
    /\ Len(predicted) > 0
    /\ ~predicted[Len(predicted)].ok
    /\ Len(audio_buffer) > 0
    /\ max_score > 0
(* The (frame, detector, score) triples of the DetectionEvents, in the     *)
(* order they were printed, whatever the shape of the record.              *)
Detected ==
    LET d == SelectSeq(out, LAMBDA e : e.type = "detection")
    IN [ j \in 1..Len(d) |-> << d[j].frame, d[j].name, d[j].score >> ]

(* The frames at which the model was reset, in order. *)
ResetFrames ==
    LET c == SelectSeq(calls, LAMBDA e : e.op = "reset")
    IN [ j \in 1..Len(c) |-> c[j].frame ]

(* What the scores alone determine, for either script: the triples of the  *)
(* scores above the threshold, by frame and then by registration order,    *)
(* from detector i of frame k on.                                          *)
RECURSIVE AboveThreshold(_, _)
AboveThreshold(k, i) ==
    IF k > Len(predicted) THEN << >>
    ELSE IF i > Len(predicted[k].scores) THEN AboveThreshold(k + 1, 1)
    ELSE (IF predicted[k].scores[i] > threshold
          THEN << << k, AVAILABLE_MODELS[i], predicted[k].scores[i] >> >>
          ELSE << >>) \o AboveThreshold(k, i + 1)

(* No frame failed to score and no score equals the threshold. *)
SameScoresPremise ==
    /\ FailedFrames = {}
    /\ \A k \in 1..Len(predicted) :
           \A i \in 1..Len(predicted[k].scores) :
               predicted[k].scores[i] # threshold

====
